---- MODULE Spec2Model ----
(***************************************************************************)
(* A model of the sim-ecs World: system registration, the topological      *)
(* sort of systems (Kahn), the derivation of the active run list on a      *)
(* state change, the scheduler, and the dispatch / run loop.               *)
(*                                                                         *)
(* A system is identified by its constructor: every comparison in the     *)
(* source is on system.constructor or system.constructor.name.            *)
(***************************************************************************)
EXTENDS Integers, Sequences, FiniteSets, TLC

\* ------------------------------------------------------------------ bounds

\* Longest dependency array passed to a registration call.
MaxDeps == 2

\* Longest dependency array passed to a registration call of SpecDup.
MaxDupDeps == 1

\* Most asynchronous calls in flight at a time.
MaxProcs == 2

\* Most entities of a world.
MaxEntities == 2

\* Longest component query passed to getEntities.
MaxQuery == 2

\* Latest value of the clock.
MaxTime == 3

\* The system constructors of the model.
SysTypes == {"A", "B", "C"}

\* The constructors whose systems the registration calls register; the third
\* is named in dependency arrays only.
RegTypes == {"A", "B"}

\* ----------------------------------------------------------------- helpers

Range(s) == {s[i] : i \in DOMAIN s}

\* Array.prototype.includes
Includes(s, x) == \E i \in DOMAIN s : s[i] = x

\* Array.prototype.indexOf on an array that includes x (1-based here)
IndexOf(s, x) == CHOOSE i \in DOMAIN s : s[i] = x /\ \A j \in 1..(i - 1) : s[j] # x

\* Array.prototype.splice(i, 1)
Splice(s, i) == SubSeq(s, 1, i - 1) \o SubSeq(s, i + 1, Len(s))

\* Array.prototype.reverse
Reverse(s) == [i \in 1..Len(s) |-> s[Len(s) + 1 - i]]

\* All arrays over S of length at most n
SeqsUpTo(S, n) == UNION {[1..k -> S] : k \in 0..n}

\* The arrays of an array of arrays, concatenated
RECURSIVE Flatten(_)
Flatten(groups) == IF groups = <<>> THEN <<>> ELSE Head(groups) \o Flatten(Tail(groups))

\* A TSystemNode
Node(sys, deps) == [system |-> sys, dependencies |-> deps]

\* ------------------------------------------------------------------- state

VARIABLES
    sortedSystems,     \* World.sortedSystems: array of TSystemNode
    defaultSystems,    \* World.defaultState.systems
    systemInfos,       \* WorldBuilder.systemInfos, in insertion order
    runSystems,        \* World.runSystems: array of {system, hasDependencies}
    runState,          \* World.runState
    runPromise,        \* World.runPromise: the run whose promise it holds
    shouldRunSystems,  \* World.shouldRunSystems
    lastDispatch,      \* World.lastDispatch
    now,               \* the clock read by Date.now()
    procs,             \* the asynchronous calls in flight, and where each waits
    pendingQuick,      \* systems added by registerSystemQuick, no sort since
    entities,          \* World.entities
    components,        \* the components each entity holds
    found,             \* the array the last getEntities call returned
    entryTimes,        \* the clock at the entry of the last two dispatch calls,
                       \* and whether run has been called
    hooks,             \* where each state stands between its activate and
                       \* deactivate hooks
    last               \* the last call or continuation and how it ended

regVars == <<sortedSystems, defaultSystems>>
runVars == <<runSystems, runState, runPromise, shouldRunSystems, lastDispatch>>
entVars == <<entities, components, found>>
vars == <<sortedSystems, defaultSystems, systemInfos, runSystems, runState,
          runPromise, shouldRunSystems, lastDispatch, now, procs, pendingQuick,
          entities, components, found, entryTimes, hooks, last>>

NoState == "none"
NoPromise == 0

Call(op, arg, err) ==
    [op |-> op, arg |-> arg, err |-> err, ran |-> <<>>, deltaTime |-> 0]
Step(op, arg, ran, deltaTime) ==
    [op |-> op, arg |-> arg, err |-> "none", ran |-> ran, deltaTime |-> deltaTime]

\* ------------------------------------------------------------ sortSystems


\* The for-loop of Kahn's algorithm for the node n taken from S: one
\* occurrence of n is spliced out of the edges of every node that lists it.
RemoveEdges(edges, n) ==
    [i \in DOMAIN edges |->
        IF Includes(edges[i], n) THEN Splice(edges[i], IndexOf(edges[i], n))
                                 ELSE edges[i]]

\* The nodes the for-loop inserts into S, in the graph's (Map) order.
RECURSIVE Pushed(_, _, _, _)
Pushed(keys, edges, n, i) ==
    IF i > Len(keys) THEN <<>>
    ELSE (IF Includes(edges[i], n) /\ Len(RemoveEdges(edges, n)[i]) <= 0
            THEN <<keys[i]>> ELSE <<>>)
         \o Pushed(keys, edges, n, i + 1)

\* The while-loop with n = S.pop() in place of n = S.shift()
RECURSIVE KahnLoopPop(_, _, _, _)
KahnLoopPop(keys, edges, S, L) ==
    IF Len(S) = 0 THEN [edges |-> edges, L |-> L]
    ELSE LET n == S[Len(S)]
         IN  KahnLoopPop(keys, RemoveEdges(edges, n),
                         SubSeq(S, 1, Len(S) - 1) \o Pushed(keys, edges, n, 1), Append(L, n))

\* while (S.length > 0) { n = S.shift(); L.push(n); ... }
RECURSIVE KahnLoop(_, _, _, _)
KahnLoop(keys, edges, S, L) ==
    IF Len(S) = 0 THEN [edges |-> edges, L |-> L]
    ELSE LET n == Head(S)
         IN  KahnLoop(keys, RemoveEdges(edges, n),
                      Tail(S) \o Pushed(keys, edges, n, 1), Append(L, n))

\* The nodes without dependencies, in the graph's order.
InitialS(unsorted) ==
    LET noDeps == SelectSeq(unsorted, LAMBDA node : Len(node.dependencies) = 0)
    IN  [i \in DOMAIN noDeps |-> noDeps[i].system]

\* unsorted.find(n => n.system.constructor == t)
FindNode(unsorted, t) ==
    unsorted[CHOOSE i \in DOMAIN unsorted :
                unsorted[i].system = t /\ \A j \in 1..(i - 1) : unsorted[j].system # t]

\* World.sortSystems: the sorted nodes, or the error thrown.
sortSystems(unsorted) ==
    LET keys  == [i \in DOMAIN unsorted |-> unsorted[i].system]
        graph == [i \in DOMAIN unsorted |-> unsorted[i].dependencies]
        k     == KahnLoop(keys, graph, InitialS(unsorted), <<>>)
    IN  IF \E i \in DOMAIN k.edges : Len(k.edges[i]) > 0
        THEN [err |-> "cyclic", nodes |-> <<>>]
        ELSE IF \E i \in DOMAIN k.L : ~\E j \in DOMAIN unsorted : unsorted[j].system = k.L[i]
        THEN [err |-> "notRegistered", nodes |-> <<>>]
        ELSE [err |-> "none", nodes |-> [i \in DOMAIN k.L |-> FindNode(unsorted, k.L[i])]]

\* ----------------------------------------------------------- registration

IsRegistered(sys) == \E i \in DOMAIN sortedSystems : sortedSystems[i].system = sys

\* The body of registerSystemQuick without its check for an already
\* registered type.
pushSystemUnchecked(sys, deps) ==
    [err |-> "none",
     systems |-> Append(defaultSystems, sys),
     sorted |-> Append(sortedSystems, Node(sys, deps))]

\* The body of registerSystemQuick: the error thrown, or the two arrays
\* with the system pushed.
pushSystem(sys, deps) ==
    IF IsRegistered(sys)
    THEN [err |-> "duplicate", systems |-> defaultSystems, sorted |-> sortedSystems]
    ELSE [err |-> "none",
          systems |-> Append(defaultSystems, sys),
          sorted |-> Append(sortedSystems, Node(sys, deps))]

\* World.registerSystemQuick
registerSystemQuick(sys, deps) ==
    LET pushed == pushSystem(sys, deps)
    IN  /\ defaultSystems' = pushed.systems
        /\ sortedSystems' = pushed.sorted
        /\ pendingQuick' = IF pushed.err = "none" THEN pendingQuick \cup {sys} ELSE pendingQuick
        /\ last' = Call("registerSystemQuick", sys, pushed.err)
        /\ UNCHANGED <<systemInfos, runVars, now, entVars, entryTimes, hooks, procs>>

\* World.registerSystem: registerSystemQuick, then the sort; a sort that
\* throws leaves what registerSystemQuick has pushed.
registerSystem(sys, deps) ==
    LET pushed == pushSystem(sys, deps)
        sorted == sortSystems(pushed.sorted)
    IN  /\ defaultSystems' = pushed.systems
        /\ sortedSystems' = IF pushed.err = "none" /\ sorted.err = "none"
                            THEN sorted.nodes ELSE pushed.sorted
        /\ pendingQuick' = IF pushed.err = "none" /\ sorted.err = "none"
                           THEN {} ELSE pendingQuick
        /\ last' = Call("registerSystem", sys,
                        IF pushed.err = "none" THEN sorted.err ELSE pushed.err)
        /\ UNCHANGED <<systemInfos, runVars, now, entVars, entryTimes, hooks, procs>>

\* World.maintain; the record of the call names the call made before it.
maintain ==
    LET sorted == sortSystems(sortedSystems)
    IN  /\ sortedSystems' = IF sorted.err = "none" THEN sorted.nodes ELSE sortedSystems
        /\ pendingQuick' = {}
        /\ last' = Call("maintain", last.op, sorted.err)
        /\ UNCHANGED <<defaultSystems, systemInfos, runVars, now, entVars, entryTimes, hooks, procs>>

\* WorldBuilder.withSystem
withSystem(sys, deps) ==
    /\ UNCHANGED <<regVars, runVars, now, entVars, entryTimes, hooks, procs, pendingQuick>>
    /\ IF \E i \in DOMAIN systemInfos : systemInfos[i].system = sys
       THEN /\ last' = Call("withSystem", sys, "duplicate")
            /\ UNCHANGED systemInfos
       ELSE /\ systemInfos' = Append(systemInfos, [system |-> sys, dependencies |-> Range(deps)])
            /\ last' = Call("withSystem", sys, "none")

\* ------------------------------------------------------------------ states

\* The states other than the default state, with the systems each lists.
UserStates == {"s1", "s2"}
UserStateSystems == [s1 |-> <<"C">>, s2 |-> <<"A", "B">>]

States == {"default"} \cup UserStates

\* IState.systems; the default state's list is the one registration pushes to.
StateSystems(s) == IF s = "default" THEN defaultSystems ELSE UserStateSystems[s]

\* ----------------------------------------------------- changeRunningState

\* The for-loop of changeRunningState over the reversed sortedSystems:
\* run is runSystems as pushed, deps is dependencySystems.
RECURSIVE RunLoop(_, _, _, _, _)
RunLoop(rev, i, stateSystems, run, deps) ==
    IF i > Len(rev) THEN run
    ELSE LET node == rev[i]
         IN  IF node.system \in deps \/ Includes(stateSystems, node.system)
             THEN RunLoop(rev, i + 1, stateSystems,
                          Append(run, [system |-> node.system,
                                       hasDependencies |-> Len(node.dependencies) > 0]),
                          deps \cup Range(node.dependencies))
             ELSE RunLoop(rev, i + 1, stateSystems, run, deps)

\* runSystems as changeRunningState leaves it for the state's systems.
BuildRunSystems(sorted, stateSystems) ==
    Reverse(RunLoop(Reverse(sorted), 1, stateSystems, <<>>, {}))

\* ------------------------------------------------ getScheduledRunSystems

\* The first block of getScheduledRunSystems: depScheduler, whose last
\* element is depScheduler[step].
RECURSIVE DepLoop(_, _, _)
DepLoop(rs, i, dep) ==
    IF i > Len(rs) THEN dep
    ELSE IF rs[i].hasDependencies
         THEN LET d1 == IF Len(dep[Len(dep)]) > 0 THEN Append(dep, <<>>) ELSE dep
                  d2 == [d1 EXCEPT ![Len(d1)] = Append(@, rs[i].system)]
              IN  DepLoop(rs, i + 1, Append(d2, <<>>))
         ELSE DepLoop(rs, i + 1, [dep EXCEPT ![Len(dep)] = Append(@, rs[i].system)])

depScheduler(rs) == DepLoop(rs, 1, <<<<>>>>)

\* The second block: its loop over depScheduler has an empty body, and
\* compScheduler is returned as it was created.
compScheduler(dep) == <<>>

getScheduledRunSystemsDep(rs) == depScheduler(rs)

\* World.getScheduledRunSystems
getScheduledRunSystems(rs) == compScheduler(depScheduler(rs))

\* ---------------------------------------------------------------- entities

\* The entities that exist, in or out of the world.
EntityIds == 1..MaxEntities

\* The component types of the model.
Components == {"Position", "Velocity"}

\* EComponentRequirement: getEntities tells UNSET from every other value,
\* for which READ stands.
Requirements == {"READ", "UNSET"}

\* A TComponentQuery is an array of [component, requirement]; NoQuery stands
\* for the query left out.
NoQuery == <<<<"none", "none">>>>
Queries == SeqsUpTo(Components \X Requirements, MaxQuery)

\* Entity.hasComponent
hasComponent(e, c) == c \in components[e]

\* The inner loop of getEntities: FALSE when it leaves by "continue entityLoop"
RECURSIVE RequirementLoop(_, _, _)
RequirementLoop(e, withComponents, i) ==
    IF i > Len(withComponents) THEN TRUE
    ELSE LET componentRequirement == withComponents[i]
         IN  IF \/ hasComponent(e, componentRequirement[1])
                    /\ componentRequirement[2] = "UNSET"
                \/ ~hasComponent(e, componentRequirement[1])
                    /\ componentRequirement[2] # "UNSET"
             THEN FALSE
             ELSE RequirementLoop(e, withComponents, i + 1)

\* The outer loop of getEntities over the first n entities of ents.
RECURSIVE EntityLoop(_, _, _, _, _)
EntityLoop(ents, n, withComponents, i, resultEntities) ==
    IF i > n THEN resultEntities
    ELSE EntityLoop(ents, n, withComponents, i + 1,
                    IF RequirementLoop(ents[i], withComponents, 1)
                    THEN Append(resultEntities, ents[i]) ELSE resultEntities)

\* getEntities with a loop that stops one entity early.
getEntitiesShort(ents, withComponents) ==
    IF withComponents = NoQuery THEN ents
    ELSE EntityLoop(ents, Len(ents) - 1, withComponents, 1, <<>>)

\* getEntities with the test for UNSET left out.
getEntitiesSet(ents, withComponents) ==
    IF withComponents = NoQuery THEN ents
    ELSE SelectSeq(ents, LAMBDA e :
            \A i \in DOMAIN withComponents : hasComponent(e, withComponents[i][1]))

\* World.getEntities, on the world's entity list ents.
getEntities(ents, withComponents) ==
    IF withComponents = NoQuery THEN ents
    ELSE EntityLoop(ents, Len(ents), withComponents, 1, <<>>)

\* World.addEntity
addEntity(e) ==
    /\ entities' = IF ~Includes(entities, e) THEN Append(entities, e) ELSE entities
    /\ last' = Call("addEntity", e, "none")
    /\ UNCHANGED <<regVars, systemInfos, runVars, now, procs, pendingQuick,
                   components, found, entryTimes, hooks>>

\* Entity.addComponent, as EntityBuilder.with calls it
addComponent(e, c) ==
    /\ components' = [components EXCEPT ![e] = @ \cup {c}]
    /\ last' = Call("addComponent", e, "none")
    /\ UNCHANGED <<regVars, systemInfos, runVars, now, procs, pendingQuick,
                   entities, found, entryTimes, hooks>>

\* A call of World.getEntities
callGetEntities(withComponents) ==
    /\ found' = getEntities(entities, withComponents)
    /\ last' = Call("getEntities", withComponents, "none")
    /\ UNCHANGED <<regVars, systemInfos, runVars, now, procs, pendingQuick,
                   entities, components, entryTimes, hooks>>

\* ------------------------------------------------------ asynchronous calls

\* Each call of an async method is a process: it runs to its next await,
\* and is resumed when what it awaits has settled.
\*   pc: "deactivate"  awaiting runState.deactivate() in changeRunningState
\*       "activate"    awaiting runState.activate() in changeRunningState
\*       "timer"       run: mainLoop handed to execAsync
\*       "preFrame"    run: awaiting configuration.preFrameHandler()
\*       "group"       awaiting Promise.all of the systems of group gi
\*       "tail"        run: awaiting the Promise.all after the groups
\*   running: the systems whose update() has been called and has not settled
\*   stopped: where the process was when stopRun was last called ("no": never)
\*   prev: the state whose deactivate() the process has called
Procs == 1..MaxProcs

IdleProc ==
    [kind |-> "idle", pc |-> "idle", state |-> NoState, currentTime |-> 0,
     deltaTime |-> 0, scheduled |-> <<>>, gi |-> 0, ran |-> <<>>, running |-> {},
     pre |-> FALSE, stopped |-> "no", prev |-> NoState]

NewProc(kind, s, pre) ==
    [IdleProc EXCEPT !.kind = kind, !.state = s, !.pre = pre, !.currentTime = now]

HasFree == \E p \in Procs : procs[p].kind = "idle"
FreeProc == CHOOSE p \in Procs :
                procs[p].kind = "idle" /\ \A q \in 1..(p - 1) : procs[q].kind # "idle"

InStep(rec) == rec.pc \in {"preFrame", "group", "tail"}

\* A state stands "off" before activate() is called on it and after a
\* deactivate() called on it has settled, "on" after activate() was called,
\* "deactivating" while a deactivate() called on it has not settled. The
\* first call of activate() while a state is not off, or of deactivate() on a
\* state that is not on, is kept as a fault, and the hooks are followed no
\* further.
HookFaults == {"activatedOutOfTurn", "deactivatedOutOfTurn"}

Faulty(h) == \E s \in States : h[s] \in HookFaults

callActivate(h, s) ==
    IF Faulty(h) THEN h
    ELSE IF \A t \in States : h[t] = "off" THEN [h EXCEPT ![s] = "on"]
    ELSE [t \in States |-> "activatedOutOfTurn"]

callDeactivate(h, s) ==
    IF Faulty(h) THEN h
    ELSE IF h[s] = "on" THEN [h EXCEPT ![s] = "deactivating"]
    ELSE [t \in States |-> "deactivatedOutOfTurn"]

settleDeactivate(h, s) ==
    IF s = NoState \/ Faulty(h) THEN h
    ELSE [h EXCEPT ![s] = IF @ = "deactivating" THEN "off" ELSE @]

\* changeRunningState from "this.runState = newState" to the await of
\* activate(): sortedSystems.reverse() reverses the array in place.
switchRunningState(p, rec) ==
    /\ runState' = rec.state
    /\ sortedSystems' = Reverse(sortedSystems)
    /\ runSystems' = BuildRunSystems(sortedSystems, StateSystems(rec.state))
    /\ hooks' = callActivate(settleDeactivate(hooks, rec.prev), rec.state)
    /\ procs' = [procs EXCEPT ![p] = [rec EXCEPT !.pc = "activate"]]

\* changeRunningState from its entry to its first await.
enterChangeRunningState(p, rec) ==
    IF runState # NoState
    THEN /\ procs' = [procs EXCEPT ![p] =
                        [rec EXCEPT !.pc = "deactivate", !.prev = runState]]
         /\ hooks' = callDeactivate(hooks, runState)
         /\ UNCHANGED <<sortedSystems, runSystems, runState>>
    ELSE switchRunningState(p, rec)

\* World.changeRunningState called on its own (systemWorld.changeRunningState)
changeRunningState(s) ==
    /\ HasFree
    /\ enterChangeRunningState(FreeProc, NewProc("changeRunningState", s, FALSE))
    /\ last' = Call("changeRunningState", s, "none")
    /\ UNCHANGED <<defaultSystems, systemInfos, runPromise, shouldRunSystems,
                   lastDispatch, now, entVars, entryTimes, pendingQuick>>

\* World.dispatch, to the await of changeRunningState
dispatch(s) ==
    /\ HasFree
    /\ enterChangeRunningState(FreeProc, NewProc("dispatch", s, FALSE))
    /\ entryTimes' = [entryTimes EXCEPT !.prev = entryTimes.cur, !.cur = now]
    /\ last' = Call("dispatch", s, "none")
    /\ UNCHANGED <<defaultSystems, systemInfos, runPromise, shouldRunSystems,
                   lastDispatch, now, entVars, pendingQuick>>

\* World.run, to the await of changeRunningState, or to its throw
run(s, pre) ==
    IF runPromise # NoPromise
    THEN /\ last' = Call("run", s, "alreadyRunning")
         /\ UNCHANGED <<regVars, systemInfos, runVars, now, entVars, entryTimes, hooks,
                        procs, pendingQuick>>
    ELSE /\ HasFree
         /\ enterChangeRunningState(FreeProc, NewProc("run", s, pre))
         /\ entryTimes' = [entryTimes EXCEPT !.run = TRUE]
         /\ last' = Call("run", s, "none")
         /\ UNCHANGED <<defaultSystems, systemInfos, runPromise, shouldRunSystems,
                        lastDispatch, now, entVars, pendingQuick>>

\* World.stopRun
stopRun ==
    /\ shouldRunSystems' = FALSE
    /\ procs' = [p \in Procs |->
                    IF procs[p].kind = "run"
                    THEN [procs[p] EXCEPT !.stopped =
                            IF InStep(procs[p]) THEN "step"
                            ELSE IF procs[p].pc = "timer" THEN "timer" ELSE "startup"]
                    ELSE procs[p]]
    /\ last' = Call("stopRun", "none", "none")
    /\ UNCHANGED <<regVars, systemInfos, runSystems, runState, runPromise,
                   lastDispatch, now, entVars, entryTimes, hooks, pendingQuick>>

\* The systems of group i are started: update() is called on each.
runGroup(rec, i) ==
    [rec EXCEPT !.pc = "group", !.gi = i, !.ran = @ \o rec.scheduled[i],
                !.running = @ \cup Range(rec.scheduled[i])]

\* The loop over scheduledSystems with Promise.all awaited after the loop
\* only: every group from i on is started.
runGroupsUnawaited(rec, i) ==
    IF i <= Len(rec.scheduled)
    THEN LET rest == Flatten(SubSeq(rec.scheduled, i, Len(rec.scheduled)))
         IN  [rec EXCEPT !.pc = "group", !.gi = Len(rec.scheduled),
                         !.ran = @ \o rest, !.running = @ \cup Range(rest)]
    ELSE IF rec.kind = "run" THEN [rec EXCEPT !.pc = "tail"]
    ELSE IdleProc

\* The loop over scheduledSystems from group i on, to its next await.
runGroups(rec, i) ==
    IF i <= Len(rec.scheduled) THEN runGroup(rec, i)
    ELSE IF rec.kind = "run" THEN [rec EXCEPT !.pc = "tail"]
    ELSE IdleProc

\* The promise update() returned for a system settles.
updateSettled(p, sys) ==
    /\ sys \in procs[p].running
    /\ procs' = [procs EXCEPT ![p].running = @ \ {sys}]
    /\ last' = Call("updateSettled", sys, "none")
    /\ UNCHANGED <<regVars, systemInfos, runVars, now, entVars, entryTimes, hooks, pendingQuick>>

\* What process p awaits in a step, the pre-frame handler or the Promise.all
\* of a group with a system that has not settled, rejects: the await throws
\* and the async function of p ends there, rejected.
reject(p) ==
    /\ procs[p].pc \in {"preFrame", "group"}
    /\ procs[p].pc = "group" => procs[p].running # {}
    /\ procs' = [procs EXCEPT ![p] = IdleProc]
    /\ last' = Call("rejected", p, "rejected")
    /\ UNCHANGED <<regVars, systemInfos, runVars, now, entVars, entryTimes, hooks, pendingQuick>>

\* dispatch: if (this.lastDispatch === 0) this.lastDispatch = currentTime
initLastDispatchNever(lastDispatched, currentTime) == lastDispatched

initLastDispatch(lastDispatched, currentTime) ==
    IF lastDispatched = 0 THEN currentTime ELSE lastDispatched

\* The continuation of process p after the await it stands at; Promise.all
\* of a group settles when every promise of the group has.
resume(p) ==
    LET rec == procs[p] IN
    /\ rec.pc \in {"deactivate", "activate", "preFrame", "group", "tail"}
    /\ rec.pc = "group" => rec.running = {}
    /\ UNCHANGED <<defaultSystems, systemInfos, now, entVars, entryTimes, pendingQuick>>
    /\ CASE rec.pc = "deactivate" ->
                /\ switchRunningState(p, rec)
                /\ last' = Call("deactivated", p, "none")
                /\ UNCHANGED <<runPromise, shouldRunSystems, lastDispatch>>
         [] rec.pc = "activate" /\ rec.kind = "changeRunningState" ->
                /\ procs' = [procs EXCEPT ![p] = IdleProc]
                /\ last' = Call("changeRunningStateDone", p, "none")
                /\ UNCHANGED <<sortedSystems, runVars, hooks>>
         [] rec.pc = "activate" /\ rec.kind = "dispatch" ->
                LET initialised == initLastDispatch(lastDispatch, rec.currentTime)
                    deltaTime == rec.currentTime - initialised
                    started == runGroups([rec EXCEPT !.scheduled =
                                            getScheduledRunSystems(runSystems),
                                          !.deltaTime = deltaTime], 1)
                IN  /\ procs' = [procs EXCEPT ![p] = started]
                    /\ lastDispatch' =
                          IF started.kind = "idle" THEN rec.currentTime ELSE initialised
                    /\ last' = IF started.kind = "idle"
                               THEN Step("dispatchDone", rec.state, <<>>, deltaTime)
                               ELSE Call("dispatchGroup", p, "none")
                    /\ UNCHANGED <<sortedSystems, runSystems, runState, runPromise,
                                   shouldRunSystems, hooks>>
         [] rec.pc = "activate" /\ rec.kind = "run" ->
                /\ runPromise' = p
                /\ shouldRunSystems' = TRUE
                /\ lastDispatch' = IF lastDispatch <= 0 THEN now ELSE lastDispatch
                /\ procs' = [procs EXCEPT ![p] =
                                [rec EXCEPT !.pc = "timer",
                                            !.scheduled = getScheduledRunSystems(runSystems)]]
                /\ last' = Call("runStarted", p, "none")
                /\ UNCHANGED <<sortedSystems, runSystems, runState, hooks>>
         [] rec.pc = "preFrame" ->
                /\ procs' = [procs EXCEPT ![p] = runGroups(rec, 1)]
                /\ last' = Call("preFrameDone", p, "none")
                /\ UNCHANGED <<sortedSystems, runVars, hooks>>
         [] rec.pc = "group" ->
                LET next == runGroups(rec, rec.gi + 1)
                IN  /\ procs' = [procs EXCEPT ![p] = next]
                    /\ lastDispatch' = IF next.kind = "idle" THEN rec.currentTime
                                       ELSE lastDispatch
                    /\ last' = IF next.kind = "idle"
                               THEN Step("dispatchDone", rec.state, rec.ran, rec.deltaTime)
                               ELSE Call("groupDone", p, "none")
                    /\ UNCHANGED <<sortedSystems, runSystems, runState, runPromise,
                                   shouldRunSystems, hooks>>
         [] rec.pc = "tail" ->
                /\ procs' = [procs EXCEPT ![p] = [rec EXCEPT !.pc = "timer", !.ran = <<>>]]
                /\ lastDispatch' = rec.currentTime
                /\ last' = Step("frameDone", p, rec.ran, rec.deltaTime)
                /\ UNCHANGED <<sortedSystems, runSystems, runState, runPromise,
                               shouldRunSystems, hooks>>

\* mainLoop of run, called by execAsync, to its first await or its return
mainLoop(p) ==
    LET rec == [procs[p] EXCEPT !.currentTime = now, !.gi = 0,
                                !.deltaTime = now - lastDispatch] IN
    /\ procs[p].kind = "run"
    /\ procs[p].pc = "timer"
    /\ UNCHANGED <<regVars, systemInfos, runSystems, runState, shouldRunSystems,
                   lastDispatch, now, entVars, entryTimes, hooks, pendingQuick>>
    /\ IF ~shouldRunSystems
       THEN /\ runPromise' = NoPromise
            /\ procs' = [procs EXCEPT ![p] = IdleProc]
            /\ last' = Call("runResolved", p, "none")
       ELSE /\ procs' = [procs EXCEPT ![p] =
                            IF rec.pre THEN [rec EXCEPT !.pc = "preFrame"]
                            ELSE runGroups(rec, 1)]
            /\ last' = Call("frame", p, "none")
            /\ UNCHANGED runPromise

\* The clock advances.
Tick ==
    /\ now < MaxTime
    /\ now' = now + 1
    /\ last' = Call("tick", "none", "none")
    /\ UNCHANGED <<regVars, systemInfos, runVars, procs, pendingQuick, entVars, entryTimes,
                   hooks>>

\* ------------------------------------------------------------ specification

EmptyWorld ==
    /\ sortedSystems = <<>>
    /\ defaultSystems = <<>>
    /\ systemInfos = <<>>
    /\ runSystems = <<>>
    /\ runState = NoState
    /\ runPromise = NoPromise
    /\ shouldRunSystems = FALSE
    /\ lastDispatch = 0
    /\ now = 1
    /\ procs = [p \in Procs |-> IdleProc]
    /\ pendingQuick = {}
    /\ entities = <<>>
    /\ components = [e \in EntityIds |-> {}]
    /\ found = <<>>
    /\ entryTimes = [prev |-> 0, cur |-> 0, run |-> FALSE]
    /\ hooks = [s \in States |-> "off"]
    /\ last = Call("new", "none", "none")

Init == EmptyWorld

\* No asynchronous call is in flight.
Quiet == \A p \in Procs : procs[p].kind = "idle"

\* A world on which systems are registered and maintained, and which is
\* dispatched with the calls made one after the other.
Next ==
    \/ \E sys \in RegTypes, deps \in SeqsUpTo(SysTypes, MaxDeps) : registerSystem(sys, deps)
    \/ \E sys \in RegTypes, deps \in SeqsUpTo(SysTypes, MaxDeps) : registerSystemQuick(sys, deps)
    \/ maintain
    \/ Quiet /\ dispatch("default")
    \/ \E p \in Procs : resume(p)

Spec == Init /\ [][Next]_vars

\* As Spec, without registerSystemQuick: every registration is sorted.
NextSorted ==
    \/ \E sys \in RegTypes, deps \in SeqsUpTo(SysTypes, MaxDeps) : registerSystem(sys, deps)
    \/ maintain
    \/ \E s \in {"default", "s2"} : Quiet /\ dispatch(s)
    \/ Quiet /\ changeRunningState("default")
    \/ \E p \in Procs : resume(p)

SpecSorted == Init /\ [][NextSorted]_vars

\* Registration alone, on the world and on a world builder.
NextDup ==
    \/ \E sys \in RegTypes, deps \in SeqsUpTo(RegTypes, MaxDupDeps) : registerSystem(sys, deps)
    \/ \E sys \in RegTypes, deps \in SeqsUpTo(RegTypes, MaxDupDeps) : registerSystemQuick(sys, deps)
    \/ \E sys \in RegTypes, deps \in SeqsUpTo(RegTypes, MaxDupDeps) : withSystem(sys, deps)

SpecDup == Init /\ [][NextDup]_vars

\* Registration of up to three systems that depend on the first two, and
\* maintain.
NextMaintain ==
    \/ \E sys \in SysTypes, deps \in SeqsUpTo(RegTypes, MaxDupDeps) : registerSystem(sys, deps)
    \/ \E sys \in SysTypes, deps \in SeqsUpTo(RegTypes, MaxDupDeps) :
            registerSystemQuick(sys, deps)
    \/ maintain

SpecMaintain == Init /\ [][NextMaintain]_vars

\* The worlds the scheduling and run specifications start from: the systems
\* A, B and C registered with registerSystem in this order, C depending on A
\* and B, on B only (which depends on A), or on nothing.
Registered(regs) == sortSystems(regs).nodes

Worlds ==
    { Registered(<<Node("A", <<>>), Node("B", <<>>), Node("C", <<"A", "B">>)>>),
      Registered(<<Node("A", <<>>), Node("B", <<"A">>), Node("C", <<"B">>)>>),
      Registered(<<Node("A", <<>>), Node("B", <<>>), Node("C", <<>>)>>) }

InitWorlds ==
    /\ sortedSystems \in Worlds
    /\ defaultSystems = <<"A", "B", "C">>
    /\ systemInfos = <<>>
    /\ runSystems = <<>>
    /\ runState = NoState
    /\ runPromise = NoPromise
    /\ shouldRunSystems = FALSE
    /\ lastDispatch = 0
    /\ now = 1
    /\ procs = [p \in Procs |-> IdleProc]
    /\ pendingQuick = {}
    /\ entities = <<>>
    /\ components = [e \in EntityIds |-> {}]
    /\ found = <<>>
    /\ entryTimes = [prev |-> 0, cur |-> 0, run |-> FALSE]
    /\ hooks = [s \in States |-> "off"]
    /\ last = Call("new", "none", "none")

\* A registered world that is dispatched and whose state is changed, the
\* calls overlapping.
NextSched ==
    \/ \E s \in States : dispatch(s)
    \/ \E s \in States : changeRunningState(s)
    \/ \E p \in Procs : resume(p)

SpecSched == InitWorlds /\ [][NextSched]_vars

\* A registered world whose dispatch loop is run and stopped.
NextRun ==
    \/ \E s \in {"default", "s1"}, pre \in BOOLEAN : run(s, pre)
    \/ stopRun
    \/ \E p \in Procs : mainLoop(p)
    \/ \E p \in Procs : resume(p)

SpecRun == InitWorlds /\ [][NextRun]_vars

\* A registered world that is run, and whose state is changed during the run.
NextRunState ==
    \/ \E pre \in BOOLEAN : Quiet /\ run("default", pre)
    \/ \E s \in States : runPromise # NoPromise /\ changeRunningState(s)
    \/ stopRun
    \/ \E p \in Procs : mainLoop(p)
    \/ \E p \in Procs : resume(p)

SpecRunState == InitWorlds /\ [][NextRunState]_vars

\* A registered world that is run and stopped, and in whose frames the
\* pre-frame handler may fail.
NextRunFail ==
    \/ \E pre \in BOOLEAN : run("default", pre)
    \/ \E p \in Procs : reject(p)
    \/ stopRun
    \/ \E p \in Procs : mainLoop(p)
    \/ \E p \in Procs : resume(p)

SpecRunFail == InitWorlds /\ [][NextRunFail]_vars

\* A registered world that is dispatched, or run and stopped, one call after
\* the other, while the clock advances.
NextTime ==
    \/ Tick
    \/ \E s \in States : Quiet /\ dispatch(s)
    \/ Quiet /\ run("default", FALSE)
    \/ stopRun
    \/ \E p \in Procs : mainLoop(p)
    \/ \E p \in Procs : resume(p)

SpecTime == InitWorlds /\ [][NextTime]_vars

\* A world to which entities and components are added and which is queried.
NextEntities ==
    \/ \E e \in EntityIds : addEntity(e)
    \/ \E e \in EntityIds, c \in Components : addComponent(e, c)
    \/ \E q \in Queries \cup {NoQuery} : callGetEntities(q)

SpecEntities == Init /\ [][NextEntities]_vars

\* The loop over scheduledSystems of dispatch and of mainLoop, applied to a
\* given schedule: a dispatch, or a run in its first frame, has called
\* update() on the systems of the first group.
StepSchedules ==
    { <<<<"A", "B">>, <<"C">>>>,
      <<<<"A">>, <<"B">>, <<"C">>>>,
      <<<<"A", "B", "C">>>> }

InitStep ==
    /\ sortedSystems \in Worlds
    /\ defaultSystems = <<"A", "B", "C">>
    /\ systemInfos = <<>>
    /\ runState = "default"
    /\ runSystems = [i \in DOMAIN sortedSystems |->
                        [system |-> sortedSystems[i].system,
                         hasDependencies |-> Len(sortedSystems[i].dependencies) > 0]]
    /\ now = 1
    /\ lastDispatch = 1
    /\ \E kind \in {"dispatch", "run"}, scheduledSystems \in StepSchedules :
          /\ procs = [p \in Procs |->
                        IF p = 1
                        THEN runGroups([NewProc(kind, "default", FALSE)
                                          EXCEPT !.scheduled = scheduledSystems], 1)
                        ELSE IdleProc]
          /\ runPromise = IF kind = "run" THEN 1 ELSE NoPromise
          /\ shouldRunSystems = (kind = "run")
    /\ pendingQuick = {}
    /\ entities = <<>>
    /\ components = [e \in EntityIds |-> {}]
    /\ found = <<>>
    /\ entryTimes = [prev |-> 0, cur |-> 1, run |-> FALSE]
    /\ hooks = [s \in States |-> IF s = "default" THEN "on" ELSE "off"]
    /\ last = Call("new", "none", "none")

NextStep ==
    \/ \E p \in Procs, sys \in SysTypes : updateSettled(p, sys)
    \/ \E p \in Procs : resume(p)
    \/ \E p \in Procs : mainLoop(p)
    \/ stopRun
    \/ Tick

SpecStep == InitStep /\ [][NextStep]_vars

\* ------------------------------------------------- the dependency graph

\* The systems of a list of nodes or of run systems, in its order.
SystemsOf(list) == [i \in DOMAIN list |-> list[i].system]

\* The declared dependencies of a registered system.
DepsOf(nodes, sys) ==
    UNION {Range(nodes[i].dependencies) : i \in {j \in DOMAIN nodes : nodes[j].system = sys}}

\* a depends on b through at most n declared dependencies.
RECURSIVE Reaches(_, _, _, _)
Reaches(nodes, a, b, n) ==
    /\ n > 0
    /\ \/ b \in DepsOf(nodes, a)
       \/ \E c \in DepsOf(nodes, a) : Reaches(nodes, c, b, n - 1)

Acyclic(nodes) ==
    \A i \in DOMAIN nodes : ~Reaches(nodes, nodes[i].system, nodes[i].system, Len(nodes))

DepsRegistered(nodes) ==
    \A i \in DOMAIN nodes : Range(nodes[i].dependencies) \subseteq Range(SystemsOf(nodes))

\* No dependency array names a system twice.
DepsDistinct(nodes) ==
    \A i \in DOMAIN nodes : Cardinality(Range(nodes[i].dependencies)) = Len(nodes[i].dependencies)

IsPermutation(a, b) ==
    /\ Len(a) = Len(b)
    /\ \A x \in Range(a) \cup Range(b) :
          Cardinality({i \in DOMAIN a : a[i] = x}) = Cardinality({i \in DOMAIN b : b[i] = x})

\* Every system of the list stands after the systems of the list it depends on.
DepsFirst(nodes, list) ==
    \A i \in DOMAIN list, j \in DOMAIN list :
        list[j] \in DepsOf(nodes, list[i]) => j < i

\* ------------------------------------------------------- component access

\* The component access each system declares: A writes Position, B writes
\* Velocity, C reads both.
Writes == [A |-> {"Position"}, B |-> {"Velocity"}, C |-> {}]
Reads == [A |-> {}, B |-> {}, C |-> {"Position", "Velocity"}]

\* A component written by one of the two is read or written by the other.
Conflict(a, b) ==
    \/ Writes[a] \cap (Reads[b] \cup Writes[b]) # {}
    \/ Writes[b] \cap (Reads[a] \cup Writes[a]) # {}

GroupSets(groups) == [g \in DOMAIN groups |-> Range(groups[g])]

\* The walk over a list of systems that closes the current group at a system
\* with a declared dependency on, or an access conflict with, a member of it.
RECURSIVE Walk(_, _, _, _, _)
Walk(nodes, list, i, done, cur) ==
    IF i > Len(list) THEN (IF cur = <<>> THEN done ELSE Append(done, cur))
    ELSE IF \E k \in DOMAIN cur :
                cur[k] \in DepsOf(nodes, list[i]) \/ Conflict(list[i], cur[k])
         THEN Walk(nodes, list, i + 1, Append(done, cur), <<list[i]>>)
         ELSE Walk(nodes, list, i + 1, done, Append(cur, list[i]))

\* Every schedule at hand: the one of the current run list, and the ones
\* the calls in flight have taken.
Schedules == {getScheduledRunSystems(runSystems)} \cup {procs[p].scheduled : p \in Procs}

\* ------------------------------------------------------------------ claims

\* C1: for registered systems whose dependency arrays name registered
\* systems and form an acyclic graph, sortSystems succeeds and returns a
\* permutation of the nodes with every system after the systems it depends on.
C1_SortOrdersAcyclic ==
    (DepsRegistered(sortedSystems) /\ Acyclic(sortedSystems)) =>
        LET sorted == sortSystems(sortedSystems)
        IN  /\ sorted.err = "none"
            /\ IsPermutation(sorted.nodes, sortedSystems)
            /\ DepsFirst(sortedSystems, SystemsOf(sorted.nodes))

\* C2: a registerSystem or maintain call on a cyclic dependency graph fails
\* with the cyclic-dependency error and leaves sortedSystems and the default
\* state's systems as they were before the call.
C2_CycleLeavesSchedule ==
    [][(/\ last'.op \in {"registerSystem", "maintain"}
        /\ last'.err # "duplicate"
        /\ ~Acyclic(sortedSystems'))
       => (/\ last'.err = "cyclic"
           /\ sortedSystems' = sortedSystems
           /\ defaultSystems' = defaultSystems)]_vars

\* C3: registering a system whose type is already registered, on the world
\* or on the builder, fails and changes neither the registered systems,
\* their dependencies nor the sorted order.
C3_DuplicateRejected ==
    [][(\/ /\ last'.op \in {"registerSystem", "registerSystemQuick"}
           /\ IsRegistered(last'.arg)
        \/ /\ last'.op = "withSystem"
           /\ \E i \in DOMAIN systemInfos : systemInfos[i].system = last'.arg)
       => (/\ last'.err = "duplicate"
           /\ sortedSystems' = sortedSystems
           /\ defaultSystems' = defaultSystems
           /\ systemInfos' = systemInfos)]_vars

\* A duplicate registerSystem was rejected on a world of two systems while
\* the builder holds a system too.
C3_Witness ==
    /\ last.op = "registerSystem"
    /\ last.err = "duplicate"
    /\ Len(sortedSystems) = 2
    /\ Len(systemInfos) > 0

\* C4: the groups of getScheduledRunSystems, concatenated, are the systems of
\* the run list in its order, and a dispatch of the default state has run
\* every registered system exactly once.
C4_ScheduleCoversRunList ==
    /\ Flatten(getScheduledRunSystems(runSystems)) = SystemsOf(runSystems)
    /\ (last.op = "dispatchDone" /\ last.arg = "default")
            => IsPermutation(last.ran, defaultSystems)

C6_ScheduleIsWalk ==
    /\ GroupSets(getScheduledRunSystems(runSystems))
          = GroupSets(Walk(sortedSystems, SystemsOf(runSystems), 1, <<>>, <<>>))
    /\ (/\ SystemsOf(runSystems) = <<"A", "B", "C">>
        /\ DepsOf(sortedSystems, "C") = {"A", "B"}
        /\ DepsOf(sortedSystems, "A") \cup DepsOf(sortedSystems, "B") = {})
            => GroupSets(getScheduledRunSystems(runSystems)) = <<{"A", "B"}, {"C"}>>

\* C7: after registerSystem, maintain, dispatch and changeRunningState calls
\* on a graph of registered, distinct and acyclic dependencies, the run list
\* places every system after the systems of the run list it depends on.
C7_RunListOrdered ==
    (/\ DepsRegistered(sortedSystems)
     /\ DepsDistinct(sortedSystems)
     /\ Acyclic(sortedSystems))
        => DepsFirst(sortedSystems, SystemsOf(runSystems))

\* C8: a run() invoked while a run that has not been stopped is in flight,
\* in its start-up or in its loop, is rejected and changes nothing.
C8_SecondRunRejected ==
    [][(/\ last'.op = "run"
        /\ \E p \in Procs : procs[p].kind = "run" /\ procs[p].stopped = "no")
       => (/\ last'.err = "alreadyRunning"
           /\ procs' = procs
           /\ runPromise' = runPromise
           /\ shouldRunSystems' = shouldRunSystems)]_vars

\* C9: a run stopped while one of its steps was in flight starts no further
\* step, and once its promise has resolved runPromise is clear, so that the
\* next run() is accepted.
C9_StopEndsRun ==
    /\ \A p \in Procs : ~(last.op = "frame" /\ last.arg = p /\ procs[p].stopped = "step")
    /\ last.op = "runResolved" => runPromise = NoPromise

\* C10: a system added by registerSystemQuick is not in the run list before
\* maintain (or a sorting registerSystem) has been called, nor run in a step.
C10_QuickWaitsForMaintain ==
    \A sys \in pendingQuick :
        /\ ~Includes(SystemsOf(runSystems), sys)
        /\ ~Includes(last.ran, sys)
        /\ \A p \in Procs : ~Includes(procs[p].ran, sys)

\* ------------------------------------------------------- component queries

\* A requirement of a query is satisfied by an entity: UNSET asks for the
\* component to be absent, every other requirement for it to be present; a
\* component the query has no pair for is irrelevant.
Satisfied(e, pair) ==
    IF pair[2] = "UNSET" THEN pair[1] \notin components[e] ELSE pair[1] \in components[e]

Matches(e, query) == \A i \in DOMAIN query : Satisfied(e, query[i])

\* C12: getEntities(query) returns the entities of the world that satisfy
\* every pair of the query, in the order of the world's entity list; an
\* entity that holds Position only is returned for the query Position
\* present, Velocity absent, and an entity that holds both is not.
C12_GetEntitiesFilters ==
    (last.op = "getEntities" /\ last.arg # NoQuery) =>
        /\ found = SelectSeq(entities, LAMBDA e : Matches(e, last.arg))
        /\ last.arg = <<<<"Position", "READ">>, <<"Velocity", "UNSET">>>> =>
              \A e \in Range(entities) :
                  /\ components[e] = {"Position"} => e \in Range(found)
                  /\ components[e] = {"Position", "Velocity"} => e \notin Range(found)

\* The query Position present, Velocity absent was answered on a world of
\* an entity that holds Position only and one that holds Velocity too.
C12_Witness ==
    /\ last.op = "getEntities"
    /\ last.arg = <<<<"Position", "READ">>, <<"Velocity", "UNSET">>>>
    /\ \E e \in Range(entities) : components[e] = {"Position"}
    /\ \E e \in Range(entities) : components[e] = {"Position", "Velocity"}

\* C17: getEntities applied with the same query to the array a getEntities
\* call has returned returns that array unchanged.
C17_FilterIdempotent ==
    last.op = "getEntities" => getEntities(found, last.arg) = found

\* A query has kept some of the entities of the world and dropped others.
C17_Witness ==
    /\ last.op = "getEntities"
    /\ last.arg # NoQuery
    /\ found # <<>>
    /\ Len(found) < Len(entities)

\* ------------------------------------------------------------------ steps

\* A system whose update() has been called in the step of rec and has settled.
Finished(rec, sys) == Includes(rec.ran, sys) /\ sys \notin rec.running

\* C11: within a dispatch or a frame of a run, a system of a group has been
\* started only if every system of every earlier group has finished.
C11_GroupsInSequence ==
    \A p \in Procs :
        \A i \in DOMAIN procs[p].scheduled, j \in DOMAIN procs[p].scheduled :
            (i < j /\ \E x \in Range(procs[p].scheduled[j]) : Includes(procs[p].ran, x))
                => \A y \in Range(procs[p].scheduled[i]) : Finished(procs[p], y)

\* The second group of a step has been started after a first group of two
\* systems.
C11_Witness ==
    \E p \in Procs :
        /\ procs[p].pc = "group"
        /\ procs[p].gi = 2
        /\ Len(procs[p].scheduled[1]) = 2
        /\ procs[p].running # {}

\* ------------------------------------------------------------ sorted order

\* The registered nodes in the order of their registration, which is the
\* order of the default state's systems.
RegistrationOrder ==
    [i \in DOMAIN defaultSystems |-> FindNode(sortedSystems, defaultSystems[i])]

\* C13: after a sort that succeeded, the sorted order is the one Kahn's
\* algorithm gives for the systems taken in the order of their registration:
\* it depends on the registration sequence and the dependencies only.
C13_SortedByRegistration ==
    (last.op \in {"registerSystem", "maintain"} /\ last.err = "none")
        => SystemsOf(sortedSystems) = SystemsOf(sortSystems(RegistrationOrder).nodes)

\* C14: a sort of an acyclic graph in which a dependency names a system that
\* is not registered fails with an error other than the cyclic one.
C14_UnregisteredDependency ==
    (/\ last.op \in {"registerSystem", "maintain"}
     /\ last.err # "duplicate"
     /\ Acyclic(sortedSystems)
     /\ ~DepsRegistered(sortedSystems))
        => last.err \notin {"none", "cyclic"}

\* C18: a step of dispatch or changeRunningState leaves sortedSystems as it
\* was; registerSystem, registerSystemQuick and maintain alone alter it.
C18_SortedOrderKept ==
    [][last'.op \notin {"registerSystem", "registerSystemQuick", "maintain"}
          => sortedSystems' = sortedSystems]_vars

\* ---------------------------------------------------------------- deltaTime

C15_FrameRunsNewState ==
    \A p \in Procs :
        (/\ last.op = "frame" /\ last.arg = p
         /\ runState # procs[p].state
         /\ \A q \in Procs : procs[q].kind # "changeRunningState")
            => Flatten(procs[p].scheduled) = SystemsOf(runSystems)

\* C19: a dispatch call that takes its schedule, after its await of
\* changeRunningState, takes it while the run list is the one of the state
\* passed to that call.
C19_DispatchSchedulesOwnState ==
    [][\A p \in Procs :
          (/\ procs[p].kind = "dispatch"
           /\ procs[p].pc = "activate"
           /\ procs'[p].pc # "activate")
              => runState = procs[p].state]_vars

\* The systems of the set, and the systems they depend on through any number
\* of declared dependencies.
Closure(nodes, systems) ==
    systems \cup {b \in Range(SystemsOf(nodes)) :
                    \E a \in systems : Reaches(nodes, a, b, Len(nodes))}

\* C20: the run list holds the registered systems the running state lists
\* and the systems they depend on, directly or not, each once.
C20_RunListIsClosure ==
    runState # NoState =>
        LET listed == Range(StateSystems(runState)) \cap Range(SystemsOf(sortedSystems))
            expected == Closure(sortedSystems, listed)
        IN  /\ Range(SystemsOf(runSystems)) = expected
            /\ Len(runSystems) = Cardinality(expected)

\* ------------------------------------------------------------ stopping a run

\* C21: a run that stopRun was called on while it awaited its initial state
\* change starts no frame.
C21_StopInStartUp ==
    \A p \in Procs :
        procs[p].stopped = "startup" => ~(last.op = "frame" /\ last.arg = p)

\* ------------------------------------------------------- sorting once more

C23_RunAfterFailure ==
    [][(last'.op = "run" /\ Quiet) => last'.err = "none"]_vars

\* -------------------------------------------------------------------- hooks

\* C24: activate() is called on a state that is off, after the deactivate()
\* called on the state before it has settled, and deactivate() is called once
\* on a state that is on: no state is activated or deactivated out of turn,
\* at most one state is not off, and it is the running state.
C24_HooksInOrder ==
    /\ \A s \in States : hooks[s] \notin HookFaults
    /\ Cardinality({s \in States : hooks[s] # "off"}) <= 1
    /\ runState # NoState => hooks[runState] # "off"
====
